---- MODULE Spec2Model ----
(***************************************************************************)
(* WatchdogManager (watchdog-manager.ts): the supervisor of one target     *)
(* process.  Every method of the class is an operator that maps the        *)
(* object (a record of its fields and of the processes, timers and         *)
(* suspended calls around it) to the object after the call; every IPC      *)
(* handler, timer callback and process event is one action.  An action     *)
(* runs a handler up to its next suspension point (an await on file I/O,   *)
(* on the exit of a process or on a timer), as the event loop does.        *)
(***************************************************************************)
EXTENDS Integers, Sequences, FiniteSets, TLC

VARIABLES
    config,                 \* this.config
    childProcess,           \* this.childProcess: a process handle or Null
    status,                 \* this.status
    pid,                    \* this.pid
    startTime,              \* this.startTime
    crashLog,               \* this.crashLog
    recentCrashTimestamps,  \* this.recentCrashTimestamps
    backoffMs,              \* this.backoffMs
    restartTimer,           \* this.restartTimer: a timer id or Null
    healthCheckTimer,       \* this.healthCheckTimer is set
    resourceTimer,          \* this.resourceTimer is set
    now,                    \* Date.now()
    ticks,                  \* how many times the clock has advanced
    live,                   \* target processes spawned and not yet exited
    nextPid,                \* the handle the next spawn() returns
    timers,                 \* armed setTimeout()s of onProcessExit: [id, due, delay]
    kills,                  \* killProcess() promises not yet resolved: [proc, cont, due]
    builds,                 \* build processes of buildAndRun() still running
    pendingStarts,          \* start(mode) calls suspended in saveConfig()
    microtask,              \* the caller of stop() that resumes next, or "none"
    emitted,                \* the events the last action emitted, in order
    cmds,                   \* IPC commands handled so far
    lastCmd,                \* buildAndRun() with a dev path was the last of them
    stopWhileRestarting,    \* stop() ran in status restarting with no start()
                            \* in flight, and no command has started since
    lastHealthCheck,        \* this.lastHealthCheck: a time or Null
    healthCheckOk,          \* this.healthCheckOk
    probes,                 \* health probes sent and not yet answered
    healthCheckPeriod,      \* the delay the health interval was armed with, or 0
    probePort,              \* the port of the last probe sent, or Null
    memoryUsage,            \* this.memoryUsage: bytes, or Null
    stderrBuffer,           \* this.stderrBuffer: characters [p, n], the n-th
                            \* that process p wrote to its stderr
    wrote,                  \* how many characters each handle has written to
                            \* its stderr so far
    memQueries,             \* tasklist queries of the sampler not yet answered
    disk,                   \* the crash list in watchdog-crashes.json
    writes,                 \* writeFile() calls of saveCrashLog() in flight:
                            \* the lists they write
    configFile,             \* the saved configuration in watchdog-config.json
    configWrites,           \* writeFile() calls of saveConfig() in flight, in
                            \* call order: [cfg, by], by the method that awaits
    lastStop,               \* the last stop() commanded with no start commanded
                            \* since: [st, proc], st "none", "awaits" (the
                            \* promise of killProcess() for proc) or "returned"
    \* LogReader (log-reader.ts)
    logs,                   \* this.logs: the ring, entries in push order
    history,                \* every entry pushed so far, in push order
    clearedAt,              \* how many entries had been pushed at the last clear
    pushing,                \* the push loop in progress: [busy, lines, source,
                            \* category], lines the ones not yet pushed
    file,                   \* the lines of the watched file debug-all.txt
    fileMtime,              \* its modification time
    sizeAtStart,            \* its size at the last startWatching()
    shrunk,                 \* it was truncated since the last startWatching()
    gen,                    \* startWatching() calls so far: gen names the
                            \* current this.watchedFiles array
    watched,                \* [lastSize, lastModified] of the file's entry in
                            \* the array of each startWatching()
    pollTimer,              \* this.pollTimer: an interval or Null
    pollTimers,             \* the armed intervals
    inits,                  \* initializeFileSizes() calls awaiting stat()
    polls,                  \* poll() calls in flight: [id, gen, phase, ...]
    nextPoll                \* the id of the next poll() call

wdVars == <<config, childProcess, status, pid, startTime, crashLog,
          recentCrashTimestamps, backoffMs, restartTimer, healthCheckTimer,
          resourceTimer, now, ticks, live, nextPid, timers, kills, builds,
          pendingStarts, microtask, emitted, cmds, lastCmd, stopWhileRestarting,
          lastHealthCheck, healthCheckOk, probes, healthCheckPeriod, probePort,
          memoryUsage, memQueries, stderrBuffer, wrote,
          disk, writes, configFile, configWrites, lastStop>>

logVars == <<logs, history, clearedAt, pushing, file, fileMtime, sizeAtStart,
             shrunk, gen, watched, pollTimer, pollTimers, inits, polls, nextPoll>>

vars == <<wdVars, logVars>>

----------------------------------------------------------------------------
(* Bounds of the model *)

\* process handles 1..MaxSpawns
MaxSpawns == 3
\* the clock advances at most MaxTicks times
MaxTicks == 1
\* writes of the crash file that may be in flight at once
MaxWrites == 2
\* this.maxLogs, the capacity of the ring: 5000 in log-reader.ts, scaled down
maxLogs == 2
\* lines the watched file may hold (LogSpec)
MaxFile == 2
\* poll() calls (LogSpec)
MaxPolls == 2
\* startWatching() calls (LogSpec)
MaxWatch == 2
\* entries pushed to the ring (LogSpec)
MaxPushes == 4
\* the characters this.stderrBuffer keeps: 10240 in the source, scaled down
StderrCap == 3
\* the characters of it a crash entry keeps: 2048 in the source, scaled down
CrashTail == 2
\* process handles (StderrSpec)
MaxStderrSpawns == 2
\* characters a process writes to its stderr (StderrSpec)
MaxStderr == 4
\* start(mode) calls that may be suspended in saveConfig() at once (StartSpec)
MaxOverlap == 2
\* spawns of the crash loop (LoopLiveSpec)
MaxLiveSpawns == 3
\* tasklist queries that may be unanswered at once (MonitorSpec)
MaxQueries == 1
\* health probes that may be unanswered at once (HealthSpec)
MaxProbes == 2
\* process handles of the crash loop (LoopSpec)
MaxLoopSpawns == 7
\* start(mode) calls that may wait for saveConfig() at once
MaxPending == 1
\* build processes that may run at once
MaxBuilds == 1
\* IPC commands in one behaviour
MaxCmds == 3

----------------------------------------------------------------------------
(* Values *)

\* null, for a handle, a pid, a timer or a timestamp
Null == 0
\* the code of an exit by signal (code === null)
NoCode == -1
\* start() called without a mode
NoMode == "none"

StatusTypes == {"idle", "running", "crashed", "restarting", "stopped", "max_restarts"}
LaunchModes == {"dev", "production"}

\* (code, signal) of an 'exit' event: a clean exit, a failure, a signal
ExitResults == { [code |-> 0, signal |-> "null"],
                 [code |-> 1, signal |-> "null"],
                 [code |-> NoCode, signal |-> "SIGTERM"] }

DEFAULT_CONFIG == [ targetExePath |-> "", targetDevPath |-> "", mode |-> "dev",
                    autoRestart |-> TRUE, maxRestarts |-> 5,
                    restartWindowMs |-> 5 * 60 * 1000,
                    healthCheckIntervalMs |-> 10000, healthCheckPort |-> 3001 ]

\* listeners of the manager's 'error' event: setupManagers() registers none
HasErrorListener == FALSE

Min(a, b) == IF a < b THEN a ELSE b

\* Array.prototype.slice(begin) and String.prototype.slice(begin)
slice(seq, begin) ==
    LET from == IF begin < 0
                THEN (IF Len(seq) + begin > 0 THEN Len(seq) + begin ELSE 0)
                ELSE Min(begin, Len(seq))
    IN  SubSeq(seq, from + 1, Len(seq))

----------------------------------------------------------------------------
(* The object: the manager's fields with the processes, timers and         *)
(* suspended calls its methods act on.                                     *)

Self == [ config |-> config, childProcess |-> childProcess, status |-> status,
          pid |-> pid, startTime |-> startTime, crashLog |-> crashLog,
          recentCrashTimestamps |-> recentCrashTimestamps,
          backoffMs |-> backoffMs, restartTimer |-> restartTimer,
          healthCheckTimer |-> healthCheckTimer, resourceTimer |-> resourceTimer,
          now |-> now, ticks |-> ticks, live |-> live, nextPid |-> nextPid, timers |-> timers,
          kills |-> kills, builds |-> builds, pendingStarts |-> pendingStarts,
          microtask |-> microtask, emitted |-> <<>>,
          stopWhileRestarting |-> stopWhileRestarting, lastStop |-> lastStop,
          lastHealthCheck |-> lastHealthCheck, healthCheckOk |-> healthCheckOk,
          probes |-> probes, disk |-> disk, writes |-> writes,
          configFile |-> configFile, configWrites |-> configWrites,
          healthCheckPeriod |-> healthCheckPeriod, probePort |-> probePort,
          memoryUsage |-> memoryUsage, memQueries |-> memQueries,
          stderrBuffer |-> stderrBuffer, wrote |-> wrote ]

\* this.emit(name, arg)
emit(s, name, arg) == [s EXCEPT !.emitted = Append(@, <<name, arg>>)]

\* this.cpuUsage: nothing assigns it but the null of its initialiser and of
\* stopResourceMonitor()
cpuUsage == Null

\* getStatus(): the snapshot (the fields of it that the model carries)
getStatus(s) ==
    [ status |-> s.status,
      mode |-> s.config.mode,
      exePath |-> IF s.config.mode = "production" THEN s.config.targetExePath
                  ELSE s.config.targetDevPath,
      pid |-> s.pid,
      uptimeMs |-> IF s.startTime > 0 THEN s.now - s.startTime ELSE 0,
      totalCrashes |-> Len(s.crashLog),
      recentCrashes |-> Len(s.recentCrashTimestamps),
      backoffMs |-> s.backoffMs,
      lastHealthCheck |-> s.lastHealthCheck,
      healthCheckOk |-> s.healthCheckOk,
      memory |-> s.memoryUsage,
      cpu |-> cpuUsage ]

\* setStatus(status)
setStatus(s, st) == emit([s EXCEPT !.status = st], "status-changed", st)

\* saveConfig(), up to its await of writeFile(): the configuration is
\* serialised and the write is issued (the directory exists)
saveConfig(s, by) ==
    [s EXCEPT !.configWrites = Append(@, [cfg |-> s.config, by |-> by])]

\* updateConfig(updates), up to its await of saveConfig()
updateConfig(s, updates) ==
    saveConfig([s EXCEPT !.config = [f \in DOMAIN s.config |->
                            IF f \in DOMAIN updates THEN updates[f] ELSE s.config[f]]],
               "updateConfig")

\* saveCrashLog(), not awaited by its callers: the list is serialised and
\* writeFile() is called (the directory exists)
saveCrashLog(s) == [s EXCEPT !.writes = @ \cup {s.crashLog}]

clearCrashLogAndBackoff(s) ==
    saveCrashLog([s EXCEPT !.crashLog = <<>>, !.recentCrashTimestamps = <<>>,
                           !.backoffMs = 1000])

\* clearCrashLog()
clearCrashLog(s) ==
    saveCrashLog([s EXCEPT !.crashLog = <<>>, !.recentCrashTimestamps = <<>>])

stopHealthCheck(s) == [s EXCEPT !.healthCheckTimer = FALSE, !.healthCheckPeriod = 0]

\* startHealthCheck(): setInterval(callback, this.config.healthCheckIntervalMs)
startHealthCheck(s) ==
    [stopHealthCheck(s) EXCEPT !.healthCheckTimer = TRUE,
                               !.healthCheckPeriod = s.config.healthCheckIntervalMs]

stopResourceMonitor(s) == [s EXCEPT !.resourceTimer = FALSE, !.memoryUsage = Null]

\* what a tasklist query may end in: a row with the memory column, an error
\* or an empty output, an output with fewer than five columns
QueryResults == {"row", "error", "short"}

\* the memory column of a row of tasklist, in bytes
SampledBytes == 1024

\* the callback of exec('tasklist ...') in the sampler
onMemoryResult(s, result) ==
    LET s1 == [s EXCEPT !.memQueries = @ - 1]
    IN  CASE result = "row"   -> [s1 EXCEPT !.memoryUsage = SampledBytes]
          [] result = "error" -> [s1 EXCEPT !.memoryUsage = Null]
          [] OTHER            -> s1

startResourceMonitor(s) == [stopResourceMonitor(s) EXCEPT !.resourceTimer = TRUE]

\* what the GET /status of doHealthCheck() may end in: a 200, another status
\* code, a network error, the 5 s timeout
ProbeResults == {"200", "500", "error", "timeout"}

\* doHealthCheck(): the boolean its promise resolves with
doHealthCheck(result) == result = "200"

\* a probe whose failure is taken for a crash of the target
onHealthResultCrashing(s, ok) ==
    IF ok THEN [s EXCEPT !.healthCheckOk = ok, !.lastHealthCheck = s.now,
                         !.probes = @ - 1]
    ELSE setStatus([s EXCEPT !.healthCheckOk = ok, !.lastHealthCheck = s.now,
                             !.probes = @ - 1], "crashed")

\* the callback of the health interval, after its await of doHealthCheck()
onHealthResult(s, ok) ==
    [s EXCEPT !.healthCheckOk = ok, !.lastHealthCheck = s.now, !.probes = @ - 1]

\* the 'data' listener of the stderr of handle p, for a chunk of n characters
onStderrData(s, p, n) ==
    LET chunk == [i \in 1..n |-> [p |-> p, n |-> s.wrote[p] + i]]
        buffer == s.stderrBuffer \o chunk
    IN  emit([s EXCEPT !.stderrBuffer = IF Len(buffer) > StderrCap
                                        THEN slice(buffer, -StderrCap) ELSE buffer,
                       !.wrote[p] = @ + n],
             "stderr", "data")

\* setTimeout(callback, delay) of onProcessExit: a new armed timer
FreshTimer(s) ==
    CHOOSE i \in 1..(Cardinality(s.timers) + 1) :
        /\ \A t \in s.timers : t.id # i
        /\ \A j \in 1..(i - 1) : \E t \in s.timers : t.id = j

\* attachProcessListeners(), for the handle h that spawn() returned; ok is
\* FALSE when the spawn failed (the handle has no pid and emits 'error' only)
attachProcessListeners(s, h, ok) ==
    IF s.childProcess = Null THEN s
    ELSE [s EXCEPT !.pid = IF ok THEN h ELSE Null]

\* spawn(...) in startDevMode() and startProductionMode()
spawn(s, ok) ==
    [s EXCEPT !.childProcess = s.nextPid,
              !.nextPid = @ + 1,
              !.wrote = Append(@, 0),
              !.live = IF ok THEN @ \cup {s.nextPid} ELSE @]

\* startDevMode() / startProductionMode() with the path of the mode.  The
\* result is <<object, threw>>: emit('error', ...) throws when the emitter
\* has no 'error' listener.
startMode(s, path, ok) ==
    IF path = ""
    THEN IF HasErrorListener
         THEN <<setStatus(emit(s, "error", "No path configured"), "stopped"), FALSE>>
         ELSE <<s, TRUE>>
    ELSE <<attachProcessListeners(spawn(s, ok), s.nextPid, ok), FALSE>>

startDevMode(s, ok) == startMode(s, s.config.targetDevPath, ok)

startProductionMode(s, ok) == startMode(s, s.config.targetExePath, ok)

\* start(), from setStatus('running') on: what runs after the await of
\* saveConfig(), or at once when no mode was given
startResume(s, ok) ==
    LET s1 == [setStatus(s, "running") EXCEPT !.startTime = s.now,
                                              !.stderrBuffer = <<>>]
        r  == IF s1.config.mode = "dev" THEN startDevMode(s1, ok)
              ELSE startProductionMode(s1, ok)
    IN  IF r[2] THEN r[1]
        ELSE startResourceMonitor(startHealthCheck(r[1]))

\* a start() that is also ignored while a restart is scheduled
startUnlessRestarting(s, mode, ok) ==
    IF s.status \in {"running", "restarting"} THEN s
    ELSE IF mode # NoMode
         THEN saveConfig([s EXCEPT !.config.mode = mode, !.pendingStarts = @ + 1],
                         "start")
         ELSE startResume(s, ok)

\* start(mode?), up to its first suspension
start(s, mode, ok) ==
    IF s.status = "running" THEN s
    ELSE IF mode # NoMode
         THEN saveConfig([s EXCEPT !.config.mode = mode, !.pendingStarts = @ + 1],
                         "start")
         ELSE startResume(s, ok)

\* a threshold that takes an uptime of exactly 60 s for a stable run
StableUptimeInclusive(uptimeMs) == uptimeMs >= 60000

\* The stability threshold of onProcessExit
StableUptime(uptimeMs) == uptimeMs > 60000

\* a ladder that grows by one second a rung
NextBackoffLinear(b) == Min(b + 1000, 30000)

\* a ladder without the 30 s cap
NextBackoffUncapped(b) == b * 2

\* The ladder of onProcessExit
NextBackoff(b) == Min(b * 2, 30000)

PruneWindow(ts, windowStart) == SelectSeq(ts, LAMBDA t : t > windowStart)

\* an exit test that takes only an exit while stopped for a normal one
NormalExitWhenStopped(code, st) == st = "stopped"

\* the exit that is not a crash: code 0, or an exit while stopped
NormalExit(code, st) == code = 0 \/ st = "stopped"

\* a crash announced with the status first and the crash event after it
announceCrashStatusFirst(s) == emit(setStatus(s, "crashed"), "crash", "")

\* the crash event, then the status crashed
announceCrash(s) == setStatus(emit(s, "crash", ""), "crashed")

\* onProcessExit(code, signal)
onProcessExit(s, code, signal) ==
    LET s1 == [stopResourceMonitor(stopHealthCheck(s)) EXCEPT !.pid = Null]
        uptimeMs == IF s.startTime > 0 THEN s.now - s.startTime ELSE 0
    IN  IF NormalExit(code, s1.status)
        THEN setStatus(s1, "stopped")
        ELSE
          LET crash == [ timestamp |-> s.now, exitCode |-> code,
                         signal |-> signal, uptimeMs |-> uptimeMs,
                         stderr |-> slice(s.stderrBuffer, -CrashTail) ]
              s2 == [saveCrashLog([s1 EXCEPT !.crashLog = Append(@, crash)])
                        EXCEPT !.recentCrashTimestamps = Append(@, s.now)]
              windowStart == s.now - s.config.restartWindowMs
              s3 == [s2 EXCEPT !.recentCrashTimestamps = PruneWindow(@, windowStart)]
              s4 == announceCrash(s3)
          IN  IF ~s4.config.autoRestart THEN s4
              ELSE IF Len(s4.recentCrashTimestamps) >= s4.config.maxRestarts
                   THEN emit(setStatus(s4, "max_restarts"), "max_restarts", "")
                   ELSE
                     LET s5 == IF StableUptime(uptimeMs)
                               THEN [s4 EXCEPT !.backoffMs = 1000] ELSE s4
                         s6 == setStatus(s5, "restarting")
                         t  == [ id |-> FreshTimer(s6), due |-> s6.now + s6.backoffMs,
                                 delay |-> s6.backoffMs ]
                         s7 == [s6 EXCEPT !.restartTimer = t.id,
                                          !.timers = @ \cup {t}]
                     IN  [s7 EXCEPT !.backoffMs = NextBackoff(@)]

\* killProcess(): SIGTERM to the handle, the 5 s force-kill timeout armed,
\* this.childProcess dropped; cont is the call that awaits the promise
killProcess(s, cont) ==
    IF s.childProcess = Null THEN s
    ELSE [s EXCEPT !.kills = @ \cup {[ proc |-> s.childProcess, cont |-> cont,
                                       due |-> s.now + 5000 ]},
                   !.childProcess = Null]

\* a stop() that cancels whichever armed timer comes first, one a call
stopBeginAnyTimer(s) ==
    LET s1 == setStatus(s, "stopped")
        s2 == IF s1.timers # {}
              THEN [s1 EXCEPT !.timers = @ \ {CHOOSE t \in @ : \A u \in @ : t.id <= u.id},
                              !.restartTimer = Null]
              ELSE s1
    IN  stopResourceMonitor(stopHealthCheck(s2))

\* stop(), up to its await of killProcess()
stopBegin(s) ==
    LET s1 == setStatus(s, "stopped")
        s2 == IF s1.restartTimer # Null
              THEN [s1 EXCEPT !.timers = {t \in @ : t.id # s1.restartTimer},
                              !.restartTimer = Null]
              ELSE s1
    IN  stopResourceMonitor(stopHealthCheck(s2))

\* the promise of stop() resolves: its caller resumes in the next microtask
\* (the stop and cleanup handlers only return the status)
resolveStop(s, cont) ==
    IF cont \in {"restart", "build"} THEN [s EXCEPT !.microtask = cont] ELSE s

\* what the caller of stop() does once stop() has returned: the rest of
\* restart(), or the rest of buildAndRun() up to the spawn of the build
afterStop(s, cont, ok) ==
    CASE cont = "restart" ->
           start([s EXCEPT !.backoffMs = 1000, !.recentCrashTimestamps = <<>>],
                 NoMode, ok)
      [] cont = "build" ->
           [emit(s, "stdout", "Building") EXCEPT !.builds = @ + 1]
      [] OTHER -> s

\* stop() called by cont: it returns at once when there is no handle, and
\* with the promise of killProcess() otherwise
stop(s, cont) ==
    LET s1 == stopBegin(s)
    IN  IF s1.childProcess # Null THEN killProcess(s1, cont)
        ELSE resolveStop(s1, cont)

\* restart()
restart(s) == stop(s, "restart")

\* buildAndRun(): emit('error', ...) throws when no dev path is configured
buildAndRun(s) ==
    IF s.config.targetDevPath = ""
    THEN IF HasErrorListener THEN emit(s, "error", "No dev path configured") ELSE s
    ELSE stop(s, "build")

\* the 'exit' listener of the build process
onBuildExit(s, code) ==
    LET s1 == [s EXCEPT !.builds = @ - 1]
    IN  IF code = 0
        THEN start(emit(s1, "stdout", "Build complete"), "production", TRUE)
        ELSE emit(s1, "stderr", "Build failed")

----------------------------------------------------------------------------
(* Inputs *)

\* watchdog-config.json as loadConfig() may find it: absent, or saved by an
\* earlier session
SavedConfigs ==
    { [ targetDevPath |-> "" ],
      [ targetDevPath |-> "proj", targetExePath |-> "app.exe",
        maxRestarts |-> 2, restartWindowMs |-> 60000 ] }

\* the patches of the update-config handler
Patches ==
    { [ autoRestart |-> FALSE ],
      [ maxRestarts |-> 1 ] }

\* the patches of the update-config handler that the health probe is run with
HealthPatches ==
    { [ healthCheckPort |-> 3002 ],
      [ healthCheckIntervalMs |-> 5000 ] }

\* the clock advances by one of these
TickSteps == {5000, 60001}

----------------------------------------------------------------------------
(* Actions *)

\* no stop() commanded since the last start
NoStop == [st |-> "none", proc |-> Null]

\* the promise of the stop() that the handler of watchdog:stop awaits
\* resolves with the promise k of killProcess()
stopReturns(s, k) ==
    IF k.cont = "stop" /\ s.lastStop = [st |-> "awaits", proc |-> k.proc]
    THEN [s EXCEPT !.lastStop = [st |-> "returned", proc |-> Null]]
    ELSE s

\* the object after a handler
Commit(s) ==
    /\ config' = s.config
    /\ childProcess' = s.childProcess
    /\ status' = s.status
    /\ pid' = s.pid
    /\ startTime' = s.startTime
    /\ crashLog' = s.crashLog
    /\ recentCrashTimestamps' = s.recentCrashTimestamps
    /\ backoffMs' = s.backoffMs
    /\ restartTimer' = s.restartTimer
    /\ healthCheckTimer' = s.healthCheckTimer
    /\ resourceTimer' = s.resourceTimer
    /\ now' = s.now
    /\ ticks' = s.ticks
    /\ live' = s.live
    /\ nextPid' = s.nextPid
    /\ timers' = s.timers
    /\ kills' = s.kills
    /\ builds' = s.builds
    /\ pendingStarts' = s.pendingStarts
    /\ microtask' = s.microtask
    /\ emitted' = s.emitted
    /\ stopWhileRestarting' = s.stopWhileRestarting
    /\ lastStop' = s.lastStop
    /\ UNCHANGED logVars
    /\ lastHealthCheck' = s.lastHealthCheck
    /\ healthCheckOk' = s.healthCheckOk
    /\ probes' = s.probes
    /\ disk' = s.disk
    /\ writes' = s.writes
    /\ healthCheckPeriod' = s.healthCheckPeriod
    /\ memoryUsage' = s.memoryUsage
    /\ stderrBuffer' = s.stderrBuffer
    /\ wrote' = s.wrote
    /\ memQueries' = s.memQueries
    /\ probePort' = s.probePort
    /\ configFile' = s.configFile
    /\ configWrites' = s.configWrites

\* an IPC handler runs: a new task of the event loop
Command(s) ==
    /\ microtask = "none"
    /\ cmds' = cmds + 1
    /\ lastCmd' = \/ s.microtask = "build"      \* buildAndRun() past its stop()
                  \/ \E k \in s.kills \ kills : k.cont = "build"   \* or in it
    /\ Commit(s)

\* a timer callback or an event listener runs: a new task of the event loop
Event(s) ==
    /\ microtask = "none"
    /\ cmds' = cmds
    /\ lastCmd' = lastCmd
    /\ Commit(s)

\* loadConfig(): the saved fields over DEFAULT_CONFIG
loadConfig(saved) ==
    [f \in DOMAIN DEFAULT_CONFIG |->
        IF f \in DOMAIN saved THEN saved[f] ELSE DEFAULT_CONFIG[f]]

\* watchdog-config.json does not exist: nothing is merged into the defaults
NoConfigFile == [f \in {} |-> ""]

\* a sequence without its i-th element
RemoveAt(seq, i) == SubSeq(seq, 1, i - 1) \o SubSeq(seq, i + 1, Len(seq))

\* no push loop is running
IdlePush == [busy |-> FALSE, lines |-> <<>>, source |-> "none", category |-> "none"]

\* new LogReader(), with the watched file holding the lines f
LogFields(f) ==
    /\ logs = <<>>
    /\ history = <<>>
    /\ clearedAt = 0
    /\ pushing = IdlePush
    /\ file = f
    /\ fileMtime = 1
    /\ sizeAtStart = 0
    /\ shrunk = FALSE
    /\ gen = 0
    /\ watched = <<>>
    /\ pollTimer = Null
    /\ pollTimers = {}
    /\ inits = {}
    /\ polls = {}
    /\ nextPoll = 1

\* the field initialisers of the class
WatchdogFields ==
    /\ childProcess = Null
    /\ status = "idle"
    /\ pid = Null
    /\ startTime = 0
    /\ crashLog = <<>>
    /\ recentCrashTimestamps = <<>>
    /\ backoffMs = 1000
    /\ restartTimer = Null
    /\ healthCheckTimer = FALSE
    /\ resourceTimer = FALSE
    /\ now = 1
    /\ ticks = 0
    /\ live = {}
    /\ nextPid = 1
    /\ timers = {}
    /\ kills = {}
    /\ builds = 0
    /\ pendingStarts = 0
    /\ microtask = "none"
    /\ emitted = <<>>
    /\ cmds = 0
    /\ lastCmd = FALSE
    /\ stopWhileRestarting = FALSE
    /\ lastStop = NoStop
    /\ lastHealthCheck = Null
    /\ healthCheckOk = FALSE
    /\ probes = 0
    /\ healthCheckPeriod = 0
    /\ probePort = Null
    /\ memoryUsage = Null
    /\ memQueries = 0
    /\ stderrBuffer = <<>>
    /\ wrote = <<>>
    /\ disk = crashLog
    /\ writes = {}
    /\ configWrites = <<>>

\* the main process after setupManagers(), with an empty log file
InitFields == WatchdogFields /\ LogFields(<<>>)

\* new WatchdogManager() and initialize()
Init ==
    /\ \E saved \in SavedConfigs : configFile = saved /\ config = loadConfig(saved)
    /\ InitFields

\* the handler of watchdog:start
Start(mode, ok) ==
    Command([start(Self, mode, ok) EXCEPT !.stopWhileRestarting = FALSE,
                                          !.lastStop = NoStop])

\* start(mode) resumes after saveConfig()
SaveConfigDone(i, ok) ==
    /\ pendingStarts > 0
    /\ configWrites[i].by = "start"
    /\ Event(startResume([Self EXCEPT !.pendingStarts = @ - 1,
                                      !.configFile = configWrites[i].cfg,
                                      !.configWrites = RemoveAt(@, i)], ok))

\* the writeFile() of an updateConfig() completes, in any order with the
\* other writes in flight, and the call returns
ConfigWriteDone(i) ==
    /\ configWrites[i].by = "updateConfig"
    /\ Event([Self EXCEPT !.configFile = configWrites[i].cfg,
                          !.configWrites = RemoveAt(@, i)])

\* the handler of watchdog:stop (cleanup() is the same call)
Stop ==
    Command([stop(Self, "stop") EXCEPT
                !.stopWhileRestarting =
                    @ \/ (status = "restarting" /\ pendingStarts = 0),
                !.lastStop =
                    IF childProcess = Null THEN [st |-> "returned", proc |-> Null]
                    ELSE [st |-> "awaits", proc |-> childProcess]])

\* the handler of watchdog:restart
Restart ==
    Command([restart(Self) EXCEPT !.stopWhileRestarting = FALSE,
                                  !.lastStop = NoStop])

\* the handler of watchdog:build-and-run
BuildAndRun ==
    Command([buildAndRun(Self) EXCEPT !.stopWhileRestarting = FALSE,
                                      !.lastStop = NoStop])

\* the handler of watchdog:update-config
UpdateConfig(updates) == Command(updateConfig(Self, updates))

\* the handler of watchdog:clear-crash-log
ClearCrashLog == Command(clearCrashLog(Self))

\* restart() or buildAndRun() resumes after its await of stop()
ResumeAfterStop(ok) ==
    /\ microtask # "none"
    /\ cmds' = cmds
    /\ lastCmd' = lastCmd
    /\ Commit(afterStop([Self EXCEPT !.microtask = "none"], microtask, ok))

\* the 'exit' event of target process p: the listener of
\* attachProcessListeners() runs onProcessExit(), then the once('exit')
\* listener of killProcess() resolves the promise of the stop() that waits
ChildExit(p, res) ==
    /\ p \in live
    /\ LET s1 == onProcessExit([Self EXCEPT !.live = @ \ {p}], res.code, res.signal)
           waiting == {k \in kills : k.proc = p}
       IN  IF waiting = {} THEN Event(s1)
           ELSE \E k \in waiting :
                    Event(stopReturns(resolveStop([s1 EXCEPT !.kills = @ \ {k}],
                                                  k.cont), k))

\* the 5 s timeout of killProcess() expires before the 'exit' of the handle:
\* SIGKILL is sent and the promise resolves
KillTimeout(k) ==
    /\ k \in kills
    /\ now >= k.due
    /\ Event(stopReturns(resolveStop([Self EXCEPT !.kills = @ \ {k}], k.cont), k))

\* the callback of the restart timer t
RestartTimerFire(t, ok) ==
    /\ t \in timers
    /\ now >= t.due
    /\ Event(start([Self EXCEPT !.timers = @ \ {t}, !.restartTimer = Null],
                   NoMode, ok))

\* the 'exit' event of a build process
BuildExit(code) ==
    /\ builds > 0
    /\ Event(onBuildExit(Self, code))

\* a writeFile() of saveCrashLog() completes: the file holds what it wrote
WriteDone(w) ==
    /\ w \in writes
    /\ Event([Self EXCEPT !.disk = w, !.writes = @ \ {w}])

\* the health interval fires: a probe is sent
HealthCheckFire ==
    /\ healthCheckTimer
    /\ Event([Self EXCEPT !.probes = @ + 1, !.probePort = config.healthCheckPort])

\* target process p writes n characters to its stderr
StderrData(p, n) ==
    /\ p \in live
    /\ Event(onStderrData(Self, p, n))

\* the sampler's interval fires: a tasklist query for this.pid is issued
ResourceTimerFire ==
    /\ resourceTimer
    /\ pid # Null
    /\ Event([Self EXCEPT !.memQueries = @ + 1])

\* a tasklist query returns
MemoryResult(result) ==
    /\ memQueries > 0
    /\ Event(onMemoryResult(Self, result))

\* a probe is answered, fails or times out
ProbeResult(result) ==
    /\ probes > 0
    /\ Event(onHealthResult(Self, doHealthCheck(result)))

\* time passes; a timeout that is due runs, and a write in flight completes,
\* before the clock advances again
Tick(d) ==
    /\ \A t \in timers \cup kills : t.due > now
    /\ writes = {}
    /\ configWrites = <<>>
    /\ Event([Self EXCEPT !.now = @ + d, !.ticks = @ + 1])

\* the bounds of the model
InBounds ==
    /\ nextPid <= MaxSpawns + 1
    /\ pendingStarts <= MaxPending
    /\ builds <= MaxBuilds
    /\ cmds <= MaxCmds
    /\ ticks <= MaxTicks
    /\ Cardinality(writes) <= MaxWrites
    /\ Len(configWrites) <= MaxWrites

Next ==
    \/ \E mode \in LaunchModes \cup {NoMode}, ok \in BOOLEAN :
           Start(mode, ok) /\ InBounds'
    \/ \E i \in DOMAIN configWrites, ok \in BOOLEAN :
           SaveConfigDone(i, ok) /\ InBounds'
    \/ \E i \in DOMAIN configWrites : ConfigWriteDone(i) /\ InBounds'
    \/ Stop /\ InBounds'
    \/ Restart /\ InBounds'
    \/ BuildAndRun /\ InBounds'
    \/ \E updates \in Patches : UpdateConfig(updates) /\ InBounds'
    \/ ClearCrashLog /\ InBounds'
    \/ \E ok \in BOOLEAN : ResumeAfterStop(ok) /\ InBounds'
    \/ \E p \in live, res \in ExitResults : ChildExit(p, res) /\ InBounds'
    \/ \E k \in kills : KillTimeout(k) /\ InBounds'
    \/ \E t \in timers, ok \in BOOLEAN : RestartTimerFire(t, ok) /\ InBounds'
    \/ \E code \in {0, 1} : BuildExit(code) /\ InBounds'
    \/ \E d \in TickSteps : Tick(d) /\ InBounds'
    \/ \E w \in writes : WriteDone(w) /\ InBounds'

Spec == Init /\ [][Next]_vars

----------------------------------------------------------------------------
(***************************************************************************)
(* The crash loop: one start(), then only the target and the clock act,    *)
(* and restart() is called once the supervisor has given up.  A run of     *)
(* the target lasts one of RunLengths and ends with one of LoopResults;    *)
(* timer callbacks run when they are due.                                  *)
(***************************************************************************)

LoopConfigs ==
    { [ targetDevPath |-> "proj", maxRestarts |-> 5 ],
      [ targetDevPath |-> "proj", maxRestarts |-> 8, restartWindowMs |-> 60000 ],
      [ targetDevPath |-> "proj", autoRestart |-> FALSE ] }

RunLengths == {500, 60000, 60001}

LoopResults == { r \in ExitResults : r.signal = "null" }

LoopInit ==
    /\ \E saved \in LoopConfigs : configFile = saved /\ config = loadConfig(saved)
    /\ InitFields

\* the target runs for d ms
LoopRun(d) ==
    /\ live # {}
    /\ now = startTime
    /\ Tick(d)

\* nothing happens until the timer t (a restart timer or a kill timeout) is due
LoopWait(t) ==
    /\ t \in timers \cup kills
    /\ now < t.due
    /\ Tick(t.due - now)

LoopBounds == nextPid <= MaxLoopSpawns + 1

LoopNext ==
    \/ status = "idle" /\ Start(NoMode, TRUE)
    \/ \E d \in RunLengths : LoopRun(d)
    \/ \E p \in live, res \in LoopResults :
           (now - startTime) \in RunLengths /\ ChildExit(p, res)
    \/ \E t \in timers \cup kills : LoopWait(t)
    \/ \E t \in timers : RestartTimerFire(t, TRUE) /\ LoopBounds'
    \/ status = "max_restarts" /\ Restart
    \/ \E k \in kills : KillTimeout(k)
    \/ ResumeAfterStop(TRUE) /\ LoopBounds'
    \/ \E w \in writes : WriteDone(w)

LoopSpec == LoopInit /\ [][LoopNext]_vars

\* the crash loop up to MaxLiveSpawns spawns with no stop() and no restart()
\* invoked, and with the event loop doing its work: a write in flight completes, time passes until the next timer is
\* due, a due timer runs
LiveBounds == nextPid <= MaxLiveSpawns + 1

LiveNext ==
    \/ status = "idle" /\ Start(NoMode, TRUE)
    \/ \E d \in RunLengths : LoopRun(d)
    \/ \E p \in live, res \in LoopResults :
           (now - startTime) \in RunLengths /\ ChildExit(p, res)
    \/ \E t \in timers \cup kills : LoopWait(t)
    \/ \E t \in timers : RestartTimerFire(t, TRUE) /\ LiveBounds'
    \/ \E w \in writes : WriteDone(w)

LoopLiveSpec ==
    /\ LoopInit
    /\ [][LiveNext]_vars
    /\ WF_vars(\E w \in writes : WriteDone(w))
    /\ WF_vars(\E t \in timers \cup kills : LoopWait(t))
    /\ WF_vars(\E t \in timers : RestartTimerFire(t, TRUE) /\ LiveBounds')

----------------------------------------------------------------------------
(* The supervisor with its health probe *)

HealthBounds == InBounds /\ probes <= MaxProbes

HealthNext ==
    \/ \E ok \in BOOLEAN : Start(NoMode, ok) /\ HealthBounds'
    \/ Stop /\ HealthBounds'
    \/ \E p \in live, res \in ExitResults : ChildExit(p, res) /\ HealthBounds'
    \/ \E k \in kills : KillTimeout(k) /\ HealthBounds'
    \/ \E t \in timers, ok \in BOOLEAN : RestartTimerFire(t, ok) /\ HealthBounds'
    \/ \E d \in TickSteps : Tick(d) /\ HealthBounds'
    \/ HealthCheckFire /\ HealthBounds'
    \/ \E result \in ProbeResults : ProbeResult(result) /\ HealthBounds'
    \/ \E w \in writes : WriteDone(w) /\ HealthBounds'
    \/ \E updates \in HealthPatches : UpdateConfig(updates) /\ HealthBounds'
    \/ \E i \in DOMAIN configWrites : ConfigWriteDone(i) /\ HealthBounds'

HealthSpec == Init /\ [][HealthNext]_vars

\* the supervisor with its resource sampler
MonitorBounds == InBounds /\ memQueries <= MaxQueries

MonitorNext ==
    \/ \E ok \in BOOLEAN : Start(NoMode, ok) /\ MonitorBounds'
    \/ Stop /\ MonitorBounds'
    \/ \E p \in live, res \in ExitResults : ChildExit(p, res) /\ MonitorBounds'
    \/ \E k \in kills : KillTimeout(k) /\ MonitorBounds'
    \/ \E t \in timers, ok \in BOOLEAN : RestartTimerFire(t, ok) /\ MonitorBounds'
    \/ \E d \in TickSteps : Tick(d) /\ MonitorBounds'
    \/ \E w \in writes : WriteDone(w) /\ MonitorBounds'
    \/ ResourceTimerFire /\ MonitorBounds'
    \/ \E result \in QueryResults : MemoryResult(result) /\ MonitorBounds'

MonitorSpec == Init /\ [][MonitorNext]_vars

\* the supervisor with start(mode) calls that overlap
StartBounds ==
    /\ nextPid <= MaxSpawns + 1
    /\ pendingStarts <= MaxOverlap
    /\ cmds <= MaxCmds
    /\ ticks <= MaxTicks
    /\ Cardinality(writes) <= MaxWrites

StartNext ==
    \/ \E mode \in LaunchModes, ok \in BOOLEAN : Start(mode, ok) /\ StartBounds'
    \/ \E i \in DOMAIN configWrites, ok \in BOOLEAN :
           SaveConfigDone(i, ok) /\ StartBounds'
    \/ Stop /\ StartBounds'
    \/ \E p \in live, res \in ExitResults : ChildExit(p, res) /\ StartBounds'
    \/ \E k \in kills : KillTimeout(k) /\ StartBounds'
    \/ \E t \in timers, ok \in BOOLEAN : RestartTimerFire(t, ok) /\ StartBounds'
    \/ \E d \in TickSteps : Tick(d) /\ StartBounds'
    \/ \E w \in writes : WriteDone(w) /\ StartBounds'

StartSpec == Init /\ [][StartNext]_vars

\* the supervisor with the stderr of its target
ChunkSizes == {1, 2}

StderrBounds ==
    /\ InBounds
    /\ nextPid <= MaxStderrSpawns + 1
    /\ \A p \in DOMAIN wrote : wrote[p] <= MaxStderr

StderrNext ==
    \/ \E ok \in BOOLEAN : Start(NoMode, ok) /\ StderrBounds'
    \/ Stop /\ StderrBounds'
    \/ \E p \in live, res \in ExitResults : ChildExit(p, res) /\ StderrBounds'
    \/ \E k \in kills : KillTimeout(k) /\ StderrBounds'
    \/ \E t \in timers, ok \in BOOLEAN : RestartTimerFire(t, ok) /\ StderrBounds'
    \/ \E d \in TickSteps : Tick(d) /\ StderrBounds'
    \/ \E w \in writes : WriteDone(w) /\ StderrBounds'
    \/ \E p \in live, n \in ChunkSizes : StderrData(p, n) /\ StderrBounds'

StderrSpec == Init /\ [][StderrNext]_vars


----------------------------------------------------------------------------
(* LogReader (log-reader.ts): the ring of log entries, fed by the stdout    *)
(* and stderr of the target and by the tailer of the watched log files.    *)
(* A line is the set of the words it holds; one watched file is modelled   *)
(* (debug-all.txt, category console), a line counting as one byte of it.   *)
(* A push loop runs line by line: the listeners of 'log' run at each emit. *)

\* the substrings of a word that the classifiers look for
Patterns(word) ==
    {word} \cup
    (CASE word = "[error]" -> {"error"}
       [] word = "error:"  -> {"error"}
       [] word = "[warn]"  -> {"[warn", "warn"}
       [] word = "warning" -> {"warn"}
       [] word = "[debug]" -> {"debug"}
       [] OTHER -> {})

\* String.prototype.toLowerCase()
toLowerCase(line) ==
    {IF word = "Uncaught" THEN "uncaught" ELSE word : word \in line}

\* String.prototype.includes()
includes(lower, pattern) == \E word \in lower : pattern \in Patterns(word)

\* lines of the model
Plain == {"plain"}
UncaughtFetch == {"Uncaught", "fetch"}
WarnIpc == {"[warn]", "[ipc]"}
Blank == {}

\* split('\n').filter(line => line.trim())
SplitLines(message) == SelectSeq(message, LAMBDA line : line # Blank)

\* parseLine(line, defaultCategory); pos is the place of the line in its file
parseLine(line, defaultCategory, pos) ==
    LET lower == toLowerCase(line)
        level ==
            IF includes(lower, "[error]") \/ includes(lower, "error:")
               \/ includes(lower, "uncaught") \/ includes(lower, "exception")
            THEN "error"
            ELSE IF includes(lower, "[warn") \/ includes(lower, "warning")
            THEN "warning"
            ELSE IF includes(lower, "[debug]") THEN "debug"
            ELSE "info"
        category ==
            IF includes(lower, "[network]") \/ includes(lower, "fetch")
               \/ includes(lower, "http")
            THEN "network"
            ELSE IF includes(lower, "[renderer]") \/ includes(lower, "[browser]")
            THEN "renderer"
            ELSE IF includes(lower, "[security]") \/ includes(lower, "cors")
                    \/ includes(lower, "csp")
            THEN "security"
            ELSE IF includes(lower, "[ipc]") THEN "ipc"
            ELSE IF includes(lower, "[performance]") \/ includes(lower, "memory")
                    \/ includes(lower, "cpu")
            THEN "performance"
            ELSE defaultCategory
    IN  [level |-> level, category |-> category, message |-> line,
         source |-> "file", pos |-> pos]

\* the entry addDirectLog() builds for one line of stdout or stderr
directEntry(line, source) ==
    LET lower == toLowerCase(line)
        level ==
            IF source = "stderr" THEN "error"
            ELSE IF includes(lower, "error") THEN "error"
            ELSE IF includes(lower, "warn") THEN "warning"
            ELSE IF includes(lower, "debug") THEN "debug"
            ELSE "info"
    IN  [level |-> level, category |-> "console", message |-> line,
         source |-> source, pos |-> 0]

\* getLogs(limit, category): "" is the argument not given, and 0 and "" are
\* falsy as undefined is
Undefined == -1

getLogs(limit, category) ==
    LET filtered == IF category # ""
                    THEN SelectSeq(logs, LAMBDA l : l.category = category)
                    ELSE logs
    IN  IF limit # Undefined /\ limit # 0 THEN slice(filtered, -limit)
        ELSE filtered

\* what stdout and stderr deliver, and what gets appended to the file
Messages == {<<Plain>>, <<UncaughtFetch, Blank, WarnIpc>>}
Sources == {"stdout", "stderr"}
FileLines == {UncaughtFetch}

\* the entry the push loop builds for its next line
nextEntry ==
    LET l == Head(pushing.lines)
    IN  IF pushing.source = "file"
        THEN parseLine(l.text, pushing.category, l.pos)
        ELSE directEntry(l.text, pushing.source)

\* addDirectLog(message, source), up to its loop over the lines
AddDirectLog(message, source) ==
    /\ ~pushing.busy
    /\ pushing' = [busy |-> TRUE,
                   lines |-> [i \in 1..Len(SplitLines(message)) |->
                                [text |-> SplitLines(message)[i], pos |-> 0]],
                   source |-> source, category |-> "console"]
    /\ UNCHANGED <<logs, history, clearedAt, file, fileMtime, sizeAtStart, shrunk,
                   gen, watched, pollTimer, pollTimers, inits, polls, nextPoll>>
    /\ UNCHANGED wdVars

\* one turn of the loop: this.logs.push(entry); this.emit('log', entry)
PushLine ==
    /\ pushing.busy /\ pushing.lines # <<>>
    /\ logs' = Append(logs, nextEntry)
    /\ history' = Append(history, nextEntry)
    /\ pushing' = [pushing EXCEPT !.lines = Tail(@)]
    /\ UNCHANGED <<clearedAt, file, fileMtime, sizeAtStart, shrunk, gen, watched,
                   pollTimer, pollTimers, inits, polls, nextPoll>>
    /\ UNCHANGED wdVars

\* after the loop: if (this.logs.length > this.maxLogs) slice(-this.maxLogs)
EndPush ==
    /\ pushing.busy /\ pushing.lines = <<>>
    /\ logs' = IF Len(logs) > maxLogs THEN slice(logs, -maxLogs) ELSE logs
    /\ pushing' = IdlePush
    /\ UNCHANGED <<history, clearedAt, file, fileMtime, sizeAtStart, shrunk, gen,
                   watched, pollTimer, pollTimers, inits, polls, nextPoll>>
    /\ UNCHANGED wdVars

\* clearLogs()
ClearLogs ==
    /\ ~pushing.busy
    /\ logs # <<>>
    /\ logs' = <<>>
    /\ clearedAt' = Len(history)
    /\ UNCHANGED <<history, pushing, file, fileMtime, sizeAtStart, shrunk, gen,
                   watched, pollTimer, pollTimers, inits, polls, nextPoll>>
    /\ UNCHANGED wdVars

\* stopWatching(): the interval in this.pollTimer is cleared
stopWatching == IF pollTimer = Null THEN pollTimers ELSE pollTimers \ {pollTimer}

\* startWatching(logDir): a new watchedFiles array, and initializeFileSizes()
\* left running
StartWatching ==
    /\ ~pushing.busy
    /\ gen' = gen + 1
    /\ pollTimers' = stopWatching
    /\ pollTimer' = Null
    /\ watched' = Append(watched, [lastSize |-> 0, lastModified |-> 0])
    /\ inits' = inits \cup {gen + 1}
    /\ sizeAtStart' = Len(file)
    /\ shrunk' = FALSE
    /\ UNCHANGED <<logs, history, clearedAt, pushing, file, fileMtime, polls, nextPoll>>
    /\ UNCHANGED wdVars

\* stopWatching() called from outside
StopWatching ==
    /\ ~pushing.busy
    /\ pollTimer # Null
    /\ pollTimers' = stopWatching
    /\ pollTimer' = Null
    /\ UNCHANGED <<logs, history, clearedAt, pushing, file, fileMtime, sizeAtStart,
                   shrunk, gen, watched, inits, polls, nextPoll>>
    /\ UNCHANGED wdVars

\* initializeFileSizes() of the g-th startWatching() gets its stat and the
\* .then() arms the interval
InitDone(g) ==
    /\ ~pushing.busy
    /\ g \in inits
    /\ watched' = [watched EXCEPT ![g] = [lastSize |-> Len(file),
                                          lastModified |-> fileMtime]]
    /\ inits' = inits \ {g}
    /\ pollTimers' = pollTimers \cup {g}
    /\ pollTimer' = g
    /\ UNCHANGED <<logs, history, clearedAt, pushing, file, fileMtime, sizeAtStart,
                   shrunk, gen, polls, nextPoll>>
    /\ UNCHANGED wdVars

\* the interval t fires: poll() starts on this.watchedFiles and awaits stat()
PollFire(t) ==
    /\ ~pushing.busy
    /\ t \in pollTimers
    /\ polls' = polls \cup {[id |-> nextPoll, gen |-> gen, phase |-> "stat",
                             from |-> 0, to |-> 0, mtime |-> 0]}
    /\ nextPoll' = nextPoll + 1
    /\ UNCHANGED <<logs, history, clearedAt, pushing, file, fileMtime, sizeAtStart,
                   shrunk, gen, watched, pollTimer, pollTimers, inits>>
    /\ UNCHANGED wdVars

\* the file entry after `if (s.size < file.lastSize) file.lastSize = 0`
afterShrinkKeepingOffset(w, size) == w

afterShrink(w, size) == IF size < w.lastSize THEN [w EXCEPT !.lastSize = 0] ELSE w

\* poll() p gets its stat: truncation, nothing new, or a read of
\* lastSize..size is issued
StatDone(p) ==
    /\ ~pushing.busy
    /\ p \in polls /\ p.phase = "stat"
    /\ LET size == Len(file)
           w == afterShrink(watched[p.gen], size)
       IN  /\ watched' = [watched EXCEPT ![p.gen] = w]
           /\ polls' = IF ~(size = w.lastSize /\ fileMtime = w.lastModified)
                          /\ size > w.lastSize
                       THEN (polls \ {p}) \cup
                            {[p EXCEPT !.phase = "read", !.from = w.lastSize,
                                       !.to = size, !.mtime = fileMtime]}
                       ELSE polls \ {p}
    /\ UNCHANGED <<logs, history, clearedAt, pushing, file, fileMtime, sizeAtStart,
                   shrunk, gen, pollTimer, pollTimers, inits, nextPoll>>
    /\ UNCHANGED wdVars

\* readFromOffset(path, from, to) of poll() p returns: the offsets are stored
\* and processNewContent() starts its loop
ReadDone(p) ==
    /\ ~pushing.busy
    /\ p \in polls /\ p.phase = "read"
    /\ LET last == Min(p.to, Len(file))
           content == [i \in 1..(IF last > p.from THEN last - p.from ELSE 0) |->
                          [text |-> file[p.from + i], pos |-> p.from + i]]
       IN  /\ watched' = [watched EXCEPT ![p.gen] = [lastSize |-> p.to,
                                                      lastModified |-> p.mtime]]
           /\ pushing' = IF content # <<>>
                         THEN [busy |-> TRUE, lines |-> content, source |-> "file",
                               category |-> "console"]
                         ELSE pushing
    /\ polls' = polls \ {p}
    /\ UNCHANGED <<logs, history, clearedAt, file, fileMtime, sizeAtStart, shrunk,
                   gen, pollTimer, pollTimers, inits, nextPoll>>
    /\ UNCHANGED wdVars

\* the target appends a line to the watched file
AppendLine(line) ==
    /\ ~pushing.busy
    /\ file' = Append(file, line)
    /\ fileMtime' = fileMtime + 1
    /\ UNCHANGED <<logs, history, clearedAt, pushing, sizeAtStart, shrunk, gen,
                   watched, pollTimer, pollTimers, inits, polls, nextPoll>>
    /\ UNCHANGED wdVars

\* the watched file is truncated or rotated: n lines are left in it
Truncate(n) ==
    /\ ~pushing.busy
    /\ ~shrunk /\ gen > 0
    /\ n < Len(file)
    /\ file' = SubSeq(file, 1, n)
    /\ fileMtime' = fileMtime + 1
    /\ shrunk' = TRUE
    /\ UNCHANGED <<logs, history, clearedAt, pushing, sizeAtStart, gen, watched,
                   pollTimer, pollTimers, inits, polls, nextPoll>>
    /\ UNCHANGED wdVars

\* the ring of the log reader, fed by the target's stdout and stderr
LogInit ==
    /\ WatchdogFields
    /\ configFile = NoConfigFile
    /\ config = loadConfig(configFile)
    /\ LogFields(<<>>)

LogBounds == Len(history) + Len(pushing.lines) <= MaxPushes

LogNext ==
    \/ \E message \in Messages, source \in Sources :
          AddDirectLog(message, source) /\ LogBounds'
    \/ PushLine /\ LogBounds'
    \/ EndPush /\ LogBounds'
    \/ ClearLogs /\ LogBounds'

LogSpec == LogInit /\ [][LogNext]_vars

\* the tailer of the log reader, with a file that holds up to MaxFile lines
\* when the program starts
StartFiles == {<<>>, <<Plain>>, <<Plain, Plain>>}

TailInit ==
    /\ WatchdogFields
    /\ configFile = NoConfigFile
    /\ config = loadConfig(configFile)
    /\ \E f \in StartFiles : LogFields(f)

TailBounds ==
    /\ Len(file) <= MaxFile
    /\ nextPoll <= MaxPolls + 1
    /\ gen <= MaxWatch
    /\ Len(history) + Len(pushing.lines) <= MaxPushes

TailNext ==
    \/ StartWatching /\ TailBounds'
    \/ StopWatching /\ TailBounds'
    \/ \E g \in inits : InitDone(g) /\ TailBounds'
    \/ \E t \in pollTimers : PollFire(t) /\ TailBounds'
    \/ \E p \in polls : StatDone(p) /\ TailBounds'
    \/ \E p \in polls : ReadDone(p) /\ TailBounds'
    \/ PushLine /\ TailBounds'
    \/ EndPush /\ TailBounds'
    \/ \E line \in FileLines : AppendLine(line) /\ TailBounds'
    \/ \E n \in 0..MaxFile : Truncate(n) /\ TailBounds'

TailSpec == TailInit /\ [][TailNext]_vars

----------------------------------------------------------------------------
(* Claims *)

\* C1: at any moment at most one target process that the supervisor spawned
\* has not yet exited
AtMostOneChild == Cardinality(live) <= 1

\* C2: pid is non-null and is the pid of the live child exactly when status
\* is running; in every other status pid is null
PidIffRunning ==
    /\ (status = "running") <=> (pid # Null /\ live = {pid})
    /\ (status # "running") => (pid = Null)

\* C3: recentCrashes never exceeds config.maxRestarts, and whenever it equals
\* maxRestarts the status is max_restarts
RecentCrashesWithinMax ==
    LET recentCrashes == getStatus(Self).recentCrashes
    IN  /\ recentCrashes <= config.maxRestarts
        /\ (recentCrashes = config.maxRestarts) => (status = "max_restarts")

\* C4: while status is max_restarts the supervisor does not retry on its
\* own: no restart timer callback spawns a child
NoRetryInMaxRestarts ==
    [][ (/\ status = "max_restarts"
         /\ \E t \in timers, ok \in BOOLEAN : RestartTimerFire(t, ok))
        => nextPid' = nextPid ]_vars

\* The scenario of C5: maxRestarts = 5, restartWindowMs = 300000, autoRestart,
\* one start(), and every run so far ended with code 1 after 500 ms
InScenario ==
    /\ config.maxRestarts = 5
    /\ config.restartWindowMs = 300000
    /\ config.autoRestart
    /\ cmds = 1
    /\ nextPid > 1
    /\ Len(crashLog) = nextPid - 1 - Cardinality(live)
    /\ \A i \in 1..Len(crashLog) :
           crashLog[i].exitCode = 1 /\ crashLog[i].uptimeMs = 500
    /\ live # {} => now - startTime <= 500

\* the time from each crash to the spawn of the next run
SpawnDelays ==
    [i \in 1..(Len(crashLog) - 1) |->
        (crashLog[i + 1].timestamp - crashLog[i + 1].uptimeMs) - crashLog[i].timestamp]

\* the events named name among those the last step emitted
Emitted(name) == SelectSeq(emitted, LAMBDA e : e[1] = name)

ScenarioDone == InScenario /\ status = "max_restarts"

\* C5 as stated: the scenario ends in max_restarts after 5 spawns and 5
\* crashes, the spawns separated by the delays 1000, 2000, 4000, 8000, 16000
FiveCrashesFiveDelays ==
    ScenarioDone =>
        /\ nextPid - 1 = 5
        /\ Len(crashLog) = 5
        /\ SpawnDelays = <<1000, 2000, 4000, 8000, 16000>>

\* C5 as amended: the scenario has at most 5 spawns, separated by the four
\* delays 1000, 2000, 4000, 8000; every crash emits one crash event; the
\* fifth crash, and only it, ends in max_restarts with one max_restarts
\* event, a crash log of length 5, backoffMs 16000 and no timer armed
FiveCrashesFourDelays ==
    /\ [](InScenario =>
            /\ nextPid - 1 <= 5
            /\ SpawnDelays = SubSeq(<<1000, 2000, 4000, 8000>>, 1, Len(crashLog) - 1)
            /\ (status = "max_restarts") <=> (Len(crashLog) = 5 /\ live = {})
            /\ (status = "max_restarts") =>
                   /\ nextPid - 1 = 5
                   /\ backoffMs = 16000
                   /\ timers = {})
    /\ [][InScenario' =>
            /\ Len(Emitted("crash"))' = Len(crashLog') - Len(crashLog)
            /\ Len(Emitted("max_restarts"))' =
                   (IF Len(crashLog') = 5 /\ Len(crashLog) = 4 THEN 1 ELSE 0)]_vars

\* C5 witness: the scenario has run to its end
FiveCrashesReached == ScenarioDone /\ Len(crashLog) = 5 /\ nextPid - 1 = 5

\* the rungs of the backoff ladder
Ladder == <<1000, 2000, 4000, 8000, 16000, 30000>>

Rungs == {Ladder[i] : i \in 1..Len(Ladder)}

\* the rung after rung b (the last rung after itself)
RungAfter(b) ==
    LET i == CHOOSE j \in 1..Len(Ladder) : Ladder[j] = b
    IN  Ladder[Min(i + 1, Len(Ladder))]

\* a step in which onProcessExit() records a crash, and the uptime it records
CrashStep == Len(crashLog') = Len(crashLog) + 1

CrashUptime == crashLog'[Len(crashLog')].uptimeMs

\* the restart timers the step arms
Armed == timers' \ timers

\* C6 as stated: backoffMs is always a rung of the ladder, and every crash
\* moves it to the next rung
LadderEveryCrash ==
    /\ [](backoffMs \in Rungs)
    /\ [][(CrashStep /\ config.autoRestart) => backoffMs' = RungAfter(backoffMs)]_vars

\* C6 as amended: backoffMs is always a rung of the ladder (so at most
\* 30000); a crash that schedules a restart moves it to the rung after the
\* delay it scheduled, a crash that schedules none leaves it unchanged
LadderPerScheduledRestart ==
    /\ [](backoffMs \in Rungs /\ backoffMs <= 30000)
    /\ [][CrashStep =>
            IF Armed = {} THEN backoffMs' = backoffMs
            ELSE \A t \in Armed : backoffMs' = RungAfter(t.delay)]_vars

\* C6 witness: the ladder has been climbed to its cap and a further crash
\* has scheduled a restart at the cap
LadderCapReached ==
    /\ backoffMs = 30000
    /\ \E t \in timers : t.delay = 30000

\* the crash of the step leads to an automatic restart
RestartPermitted ==
    config'.autoRestart /\ Len(recentCrashTimestamps') < config'.maxRestarts

\* C7 as stated: a crash after an uptime above 60000 ms schedules the restart
\* with a delay of 1000 ms; a crash after an uptime below 60000 ms advances
\* the ladder
StabilityResetEveryCrash ==
    [][(CrashStep /\ config.autoRestart) =>
        /\ CrashUptime > 60000 => \E t \in Armed : t.delay = 1000
        /\ CrashUptime < 60000 => backoffMs' = RungAfter(backoffMs)]_vars

\* C7 as amended: a crash that leads to an automatic restart arms one timer;
\* its delay is 1000 ms after an uptime above 60000 ms and the current
\* backoffMs otherwise, and backoffMs becomes the rung after that delay
StabilityResetWhenRestarting ==
    [][(CrashStep /\ RestartPermitted) =>
        \E t \in Armed :
            /\ Armed = {t}
            /\ t.delay = (IF CrashUptime > 60000 THEN 1000 ELSE backoffMs)
            /\ t.due = now' + t.delay
            /\ backoffMs' = RungAfter(t.delay)]_vars

\* C7 witness: after a crash at uptime 60001 a restart is scheduled in
\* 1000 ms although the ladder stood above its second rung
StabilityResetReached ==
    /\ status = "restarting"
    /\ Len(crashLog) >= 3
    /\ crashLog[Len(crashLog)].uptimeMs = 60001
    /\ crashLog[Len(crashLog) - 1].uptimeMs = 500
    /\ crashLog[Len(crashLog) - 2].uptimeMs = 500
    /\ \E t \in timers : t.delay = 1000
    /\ backoffMs = 2000

\* the step in which restart() resumes after its await of stop() and runs to
\* its end, the spawn succeeding
RestartCompletes == microtask = "restart" /\ ResumeAfterStop(TRUE)

\* C8: when restart() has run to its end, no restart timer is pending,
\* recentCrashes is 0 and backoffMs is 1000, and with a path configured for
\* the mode the status is running with exactly one live child
RestartEndsRunning ==
    [][RestartCompletes =>
        /\ timers' = {}
        /\ recentCrashTimestamps' = <<>>
        /\ backoffMs' = 1000
        /\ getStatus(Self).exePath # "" =>
               (status' = "running" /\ Cardinality(live') = 1)]_vars

\* the step in which the 'exit' listener runs for an exit with code 0
CleanExitStep == \E p \in live : ChildExit(p, [code |-> 0, signal |-> "null"])

\* C9: a child exit with code 0 appends no CrashEntry, adds no timestamp to
\* the rolling window, emits no crash event, leaves backoffMs unchanged, arms
\* no restart timer and leaves status = stopped, whatever autoRestart is
CleanExitIsNoCrash ==
    [][CleanExitStep =>
        /\ crashLog' = crashLog
        /\ recentCrashTimestamps' = recentCrashTimestamps
        /\ Emitted("crash")' = <<>>
        /\ backoffMs' = backoffMs
        /\ timers' = timers /\ restartTimer' = restartTimer
        /\ status' = "stopped"]_vars

\* C9 witness: with autoRestart on and restarts left, the only child started
\* has exited by itself with code 0 while running: the status is stopped,
\* nothing is logged and no timer is armed
CleanExitReached ==
    /\ config.autoRestart /\ config.maxRestarts > 0
    /\ cmds = 1 /\ nextPid = 2 /\ live = {} /\ kills = {}
    /\ childProcess = 1 /\ pid = Null
    /\ status = "stopped" /\ emitted = << <<"status-changed", "stopped">> >>
    /\ crashLog = <<>> /\ timers = {}

\* C10: after a stop() invoked while status = restarting, and until a start is
\* commanded, the status is stopped, no child is spawned and backoffMs keeps
\* its value
StopCancelsRestart ==
    /\ [](stopWhileRestarting => status = "stopped")
    /\ [][stopWhileRestarting' =>
            (nextPid' = nextPid /\ backoffMs' = backoffMs)]_vars

\* what C11 compares of the object: status, pid, the crash counters, the
\* backoff and the timers
StopView(s) ==
    [ status |-> s.status, pid |-> s.pid, crashLog |-> s.crashLog,
      recentCrashTimestamps |-> s.recentCrashTimestamps,
      backoffMs |-> s.backoffMs, restartTimer |-> s.restartTimer,
      timers |-> s.timers, kills |-> s.kills,
      healthCheckTimer |-> s.healthCheckTimer, resourceTimer |-> s.resourceTimer ]

\* C11: from any state, stop() leaves status = stopped, a second and a third
\* stop() leave pid, counters and timers as the first did, and a start() that
\* follows, with a path configured for the mode, yields status = running
StopIdempotent ==
    LET once   == stop(Self, "stop")
        twice  == stop(once, "stop")
        thrice == stop(twice, "stop")
    IN  /\ once.status = "stopped"
        /\ StopView(twice) = StopView(once)
        /\ StopView(thrice) = StopView(once)
        /\ \A ok \in BOOLEAN :
               getStatus(twice).exePath # "" =>
                   start(twice, NoMode, ok).status = "running"

\* C11 witness: start(), a crash that arms the restart timer, then stop()
\* twice in a row: the second stop() found the status stopped, the timer
\* cancelled and the handle dropped
StopTwiceReached ==
    /\ cmds = 3 /\ ticks = 0 /\ nextPid = 2 /\ pendingStarts = 0 /\ builds = 0
    /\ config.autoRestart /\ config.maxRestarts = 2
    /\ Len(crashLog) = 1 /\ Len(recentCrashTimestamps) = 1
    /\ stopWhileRestarting /\ status = "stopped" /\ timers = {}
    /\ childProcess = Null
    /\ kills = {[proc |-> 1, cont |-> "stop", due |-> now + 5000]}
    /\ emitted = << <<"status-changed", "stopped">> >>

\* the step in which the 'exit' listener runs for a child that killProcess()
\* has signalled and whose exit stop() still awaits
TerminatedExitStep ==
    \E p \in live, res \in ExitResults :
        /\ \E k \in kills : k.proc = p
        /\ ChildExit(p, res)

\* C12: the exit of a child that the supervisor terminated records no
\* CrashEntry, emits no crash event, leaves recentCrashes and backoffMs
\* unchanged and schedules no restart
TerminatedExitIsOrderly ==
    [][TerminatedExitStep =>
        /\ crashLog' = crashLog
        /\ Emitted("crash")' = <<>>
        /\ recentCrashTimestamps' = recentCrashTimestamps
        /\ backoffMs' = backoffMs
        /\ timers' = timers]_vars

\* the events C13 names: status, crash and log (stdout, stderr) events
StatusCrashLogEvents == {"status-changed", "crash", "stdout", "stderr"}

\* a stop() has returned, no start has been commanded since, the status is
\* stopped and nothing an earlier command left behind is pending: no start()
\* in saveConfig(), no restart timer, no build, no caller about to resume
QuietAfterStop ==
    /\ lastStop.st = "returned" /\ status = "stopped"
    /\ pendingStarts = 0 /\ timers = {} /\ builds = 0 /\ microtask = "none"

\* C13: after stop() has returned and until the next start is commanded, no
\* timer callback and no listener emits a status-changed, crash or log event
NoEventsAfterStop ==
    [][(QuietAfterStop /\ cmds' = cmds) =>
        \A i \in 1..Len(emitted') : emitted'[i][1] \notin StatusCrashLogEvents]_vars

\* the places in the events of the last step where name was emitted
EventAt(name, arg) ==
    {i \in 1..Len(emitted) : emitted[i] = <<name, arg>>}

\* C14: a step that spawns a child has emitted status-changed(running) first
\* and no crash event; a crash event is emitted only by the exit of a child
\* spawned in an earlier step, once, and before the status-changed(crashed)
\* and the status-changed(restarting) of that step
RunningThenCrashThenStatus ==
    /\ [][nextPid' # nextPid =>
            (1 \in EventAt("status-changed", "running")' /\ Emitted("crash")' = <<>>)]_vars
    /\ [][Emitted("crash")' # <<>> =>
            /\ \E p \in live : live' = live \ {p}
            /\ Len(Emitted("crash"))' = 1
            /\ EventAt("status-changed", "crashed")' # {}
            /\ \A i \in EventAt("crash", "")' :
                   \A j \in EventAt("status-changed", "crashed")'
                            \cup EventAt("status-changed", "restarting")' : i < j]_vars

\* C14 witness: the last step was a crash that scheduled a restart: it emitted
\* crash, status-changed(crashed), status-changed(restarting), in this order
CrashThenStatusReached ==
    /\ emitted = << <<"crash", "">>, <<"status-changed", "crashed">>,
                    <<"status-changed", "restarting">> >>
    /\ status = "restarting" /\ crashLog # <<>> /\ nextPid > 1

\* C15: the health-probe timer and the resource-sampler timer are armed if
\* and only if status = running
TimersIffRunning ==
    /\ healthCheckTimer <=> (status = "running")
    /\ resourceTimer <=> (status = "running")

\* C16: a health probe result changes only lastHealthCheck and healthCheckOk:
\* status, pid, backoffMs, the crash counters, the restart timers and the
\* processes are as before, and nothing is emitted
ProbeChangesOnlyHealth ==
    [][\A result \in ProbeResults : ProbeResult(result) =>
        /\ healthCheckOk' = (result = "200")
        /\ UNCHANGED <<status, pid, backoffMs, crashLog, recentCrashTimestamps,
                       restartTimer, timers, childProcess, live, nextPid,
                       startTime, config, healthCheckTimer, resourceTimer, kills>>
        /\ lastHealthCheck' = now
        /\ emitted' = <<>>]_vars

\* C16 witness: a probe has failed while the target runs: healthCheckOk is
\* false with lastHealthCheck set, the status is still running and no restart
\* is scheduled
FailedProbeReached ==
    /\ lastHealthCheck = now /\ ~healthCheckOk
    /\ status = "running" /\ live # {} /\ timers = {} /\ crashLog = <<>>
    /\ emitted = <<>> /\ ticks = 1

\* C17: the snapshot of getStatus() has uptimeMs = now - startTime when
\* status = running and uptimeMs = 0 in every other status
UptimeOnlyWhileRunning ==
    LET uptimeMs == getStatus(Self).uptimeMs
    IN  /\ (status = "running") => (uptimeMs = now - startTime)
        /\ (status # "running") => (uptimeMs = 0)

\* the crash timestamps on record that lie within the last restartWindowMs
InWindow ==
    {i \in 1..Len(recentCrashTimestamps) :
        now - config.restartWindowMs < recentCrashTimestamps[i]}

\* C18: at every getStatus() query (taken when no timeout is overdue),
\* recentCrashes is the number of recorded crash timestamps t with
\* now - restartWindowMs < t
RecentCrashesPrunedOnQuery ==
    (\A t \in timers \cup kills : t.due > now) =>
        getStatus(Self).recentCrashes = Cardinality(InWindow)

\* C19: whenever no write of the crash file is in flight, the crash history
\* on disk equals the list in memory
CrashFileMatchesMemory == (writes = {}) => (disk = crashLog)

\* a step in which a child exits with a non-zero code or on a signal while
\* autoRestart is false and the status is not stopped
CrashWithoutAutoRestartStep ==
    /\ ~config.autoRestart
    /\ status # "stopped"
    /\ \E p \in live, res \in ExitResults : res.code # 0 /\ ChildExit(p, res)

\* no command is still at work: no start() in saveConfig(), no build, no
\* restart() or buildAndRun() waiting for its stop()
NoCommandAtWork ==
    /\ pendingStarts = 0 /\ builds = 0 /\ microtask = "none"
    /\ \A k \in kills : k.cont = "stop"

\* C20: with autoRestart false, a crash is appended to the crash history and
\* counted in the window, the crash event is emitted, status becomes crashed
\* and no restart timer is armed; the status then stays crashed, and nothing
\* is spawned, while no command is given or at work
CrashWithoutAutoRestart ==
    /\ [][CrashWithoutAutoRestartStep =>
            /\ Len(crashLog') = Len(crashLog) + 1
            /\ Len(recentCrashTimestamps') >= 1
            /\ recentCrashTimestamps'[Len(recentCrashTimestamps')] = now
            /\ Len(Emitted("crash"))' = 1
            /\ status' = "crashed"
            /\ timers' = {}]_vars
    /\ [][(status = "crashed" /\ ~config.autoRestart /\ NoCommandAtWork
                /\ cmds' = cmds) =>
            (status' = "crashed" /\ nextPid' = nextPid)]_vars

\* a step in which spawn() is called and fails: the handle it returns never
\* becomes a live process
SpawnFailureStep == nextPid' = nextPid + 1 /\ nextPid \notin live'

\* C21: when spawning the target fails, the supervisor ends in status =
\* stopped with pid null, records no CrashEntry, adds nothing to the rolling
\* window and leaves backoffMs unchanged
SpawnFailureEndsStopped ==
    [][SpawnFailureStep =>
        /\ status' = "stopped"
        /\ pid' = Null
        /\ crashLog' = crashLog
        /\ recentCrashTimestamps' = recentCrashTimestamps
        /\ backoffMs' = backoffMs]_vars

\* a step in which start() goes on to launch the target and the path of the
\* mode is empty
EmptyPathStartStep ==
    /\ 1 \in EventAt("status-changed", "running")'
    /\ (getStatus(Self).exePath)' = ""

\* C22: start() with an empty path for the chosen mode spawns no child,
\* records no crash and leaves status = stopped
EmptyPathStartEndsStopped ==
    [][EmptyPathStartStep =>
        /\ nextPid' = nextPid /\ live' = live
        /\ crashLog' = crashLog
        /\ status' = "stopped"]_vars

\* the entries pushed since the ring was last emptied
PushedSinceClear == SubSeq(history, clearedAt + 1, Len(history))

\* C23: the log ring never holds more than maxLogs entries, at any moment,
\* the turns of a multi-line push loop included, and the entries it retains
\* are exactly the most recent maxLogs pushes, in push order.
RingWithinCapacity ==
    /\ Len(logs) <= maxLogs
    /\ logs = slice(PushedSinceClear, -maxLogs)

\* the arguments getLogs() is queried with
Limits == {0, 1, 2}
Categories == {"", "console", "network", "ipc"}

\* the last n entries of a sequence
LastOf(seq, n) == SubSeq(seq, Len(seq) - Min(n, Len(seq)) + 1, Len(seq))

\* C26: for every limit and category getLogs(limit, category) returns the
\* entries of the ring with that category (all of them when none is given), in
\* push order, cut to the last limit of them, so never more than limit
\* entries; and clearLogs() leaves the ring empty.
GetLogsReturnsLastLimit ==
    /\ [](\A limit \in Limits, category \in Categories :
            LET wanted == IF category = "" THEN logs
                          ELSE SelectSeq(logs, LAMBDA l : l.category = category)
            IN  /\ getLogs(limit, category) = LastOf(wanted, limit)
                /\ Len(getLogs(limit, category)) <= limit)
    /\ [][ClearLogs => logs' = <<>>]_vars

\* the ordered rules for the level of a line
RuleLevel(line) ==
    LET has(p) == includes(toLowerCase(line), p)
    IN  IF has("[error]") \/ has("error:") \/ has("uncaught") \/ has("exception")
        THEN "error"
        ELSE IF has("[warn") \/ has("warning") THEN "warning"
        ELSE IF has("[debug]") THEN "debug"
        ELSE "info"

\* the ordered rules for the category of a line
RuleCategory(line, default) ==
    LET has(p) == includes(toLowerCase(line), p)
    IN  IF has("[network]") \/ has("fetch") \/ has("http") THEN "network"
        ELSE IF has("[renderer]") \/ has("[browser]") THEN "renderer"
        ELSE IF has("[security]") \/ has("cors") \/ has("csp") THEN "security"
        ELSE IF has("[ipc]") THEN "ipc"
        ELSE IF has("[performance]") \/ has("memory") \/ has("cpu") THEN "performance"
        ELSE default

\* C27: every pushed line, from a file or from stdout, has the level and the
\* category the ordered rules give it, the category of its source (console)
\* when no group matches; a line of stderr always has level error.
SameRulesForEveryPush ==
    \A i \in 1..Len(history) :
        LET e == history[i]
        IN  /\ e.level = IF e.source = "stderr" THEN "error" ELSE RuleLevel(e.message)
            /\ e.category = RuleCategory(e.message, "console")

\* the places in the file of the lines the tailer has emitted, in emit order
EmittedPos == [i \in 1..Len(history) |-> history[i].pos]

\* the tailer has nothing in flight and its offsets are those of the file
TailerUpToDate ==
    /\ inits = {} /\ polls = {} /\ ~pushing.busy
    /\ watched[gen].lastSize = Len(file)
    /\ watched[gen].lastModified = fileMtime

\* C24: after one startWatching() on a file that only grows, the tailer emits
\* no line that was in the file at start and emits no appended line twice,
\* also when polls overlap: k appended lines never produce more than k events.
TailerEmitsNoLineTwice ==
    (gen = 1 /\ ~shrunk) =>
        /\ \A i \in 1..Len(history) : EmittedPos[i] > sizeAtStart
        /\ \A i, j \in 1..Len(history) : i # j => EmittedPos[i] # EmittedPos[j]

\* the other half of C24: once the tailer has caught up, every line appended
\* after startWatching() has been emitted
TailerEmitsEveryLine ==
    (gen = 1 /\ ~shrunk /\ TailerUpToDate) =>
        (sizeAtStart + 1)..Len(file) \subseteq {EmittedPos[i] : i \in 1..Len(history)}

\* poll p gets its stat and finds the file smaller than the recorded size
SeesTruncation(p) == StatDone(p) /\ Len(file) < watched[p.gen].lastSize

ConfigAfterRestart == loadConfig(configFile)

\* with no write in flight the file holds the configuration in memory
ConfigSurvivesRestart ==
    configWrites = <<>> => ConfigAfterRestart = config

\* C28: with only updateConfig() calls made so far and all of them returned,
\* a supervisor instantiated anew reads back the configuration in memory: the
\* fields of the last patch as patched and the other fields as they were,
\* overlapping calls included.
LastPatchSurvivesRestart ==
    (status = "idle" /\ pendingStarts = 0) => ConfigSurvivesRestart

\* C29: when the health interval fires, the probe goes to the port of the
\* configuration in force and the interval runs with the configured delay,
\* whatever updateConfig() changed since the child was started; and
\* updateConfig() leaves the running child as it is.
HealthChangeTakesEffect ==
    /\ [][HealthCheckFire =>
            /\ probePort' = config.healthCheckPort
            /\ healthCheckPeriod' = config.healthCheckIntervalMs]_vars
    /\ [][(\E updates \in HealthPatches : UpdateConfig(updates)) =>
            /\ childProcess' = childProcess /\ live' = live
            /\ pid' = pid /\ status' = status]_vars

\* buildAndRun() is called with a dev path configured
BuildCommanded == BuildAndRun /\ config.targetDevPath # ""

\* C30: buildAndRun() with a dev path stops first (status stopped, the handle
\* dropped, no build before stop() has returned) and then runs the build; a
\* build that exits with code 0 invokes start(production); a build that exits
\* non-zero, with no command given since, spawns no child and leaves the
\* status stopped; and buildAndRun() with no dev path spawns nothing.
BuildAndRunContract ==
    /\ [][BuildCommanded =>
            /\ status' = "stopped" /\ childProcess' = Null
            /\ builds' = builds /\ nextPid' = nextPid]_vars
    /\ [][(microtask = "build" /\ \E ok \in BOOLEAN : ResumeAfterStop(ok)) =>
            /\ builds' = builds + 1 /\ nextPid' = nextPid
            /\ status' = "stopped"]_vars
    /\ [][BuildExit(0) =>
            \/ status = "running" /\ status' = "running"
            \/ pendingStarts' = pendingStarts + 1 /\ config'.mode = "production"]_vars
    /\ [][(BuildExit(1) /\ lastCmd) =>
            /\ nextPid' = nextPid /\ live' = live
            /\ status' = "stopped"]_vars
    /\ [][(BuildAndRun /\ config.targetDevPath = "") =>
            /\ nextPid' = nextPid /\ live' = live /\ builds' = builds]_vars

\* the transitions of the state table
StateTable ==
    { <<"idle", "running">>, <<"stopped", "running">>, <<"running", "stopped">>,
      <<"running", "crashed">>, <<"crashed", "restarting">>,
      <<"crashed", "max_restarts">>, <<"restarting", "running">>,
      <<"max_restarts", "running">> }
    \cup {<<st, "stopped">> : st \in StatusTypes}

\* the statuses the last step announced, in order
StatusChanges ==
    [i \in 1..Len(Emitted("status-changed")) |-> Emitted("status-changed")[i][2]]

\* C31: every change of status, the ones inside a handler included, is a
\* transition of the state table, under any interleaving of the calls.
OnlyTableTransitions ==
    [][LET path == <<status>> \o StatusChanges'
       IN  \A i \in 1..(Len(path) - 1) :
               path[i] # path[i + 1] => <<path[i], path[i + 1]>> \in StateTable]_vars

\* C32: memory and cpu of the snapshot are null whenever no run is current
\* (from the exit of the child or the stop() on), tasklist queries still
\* unanswered at that moment included.
NoSampleWithoutRun ==
    status # "running" =>
        (getStatus(Self).memory = Null /\ getStatus(Self).cpu = Null)

\* the last n characters that handle p has written to its stderr
TailWritten(p, n) ==
    [i \in 1..Min(n, wrote[p]) |-> [p |-> p, n |-> wrote[p] - Min(n, wrote[p]) + i]]

\* C33: the stderr accumulator is empty after each start(), never holds more
\* than StderrCap characters and, while a child is current, is the tail of
\* what that child wrote to stderr; the stderr of every crash entry has at
\* most CrashTail characters and is the tail of the accumulator at the exit.
StderrIsTailOfRun ==
    /\ [](/\ Len(stderrBuffer) <= StderrCap
          /\ childProcess # Null => stderrBuffer = TailWritten(childProcess, StderrCap)
          /\ \A i \in 1..Len(crashLog) : Len(crashLog[i].stderr) <= CrashTail)
    /\ [][nextPid' # nextPid => stderrBuffer' = <<>>]_vars
    /\ [][Len(crashLog') > Len(crashLog) =>
            crashLog'[Len(crashLog')].stderr = slice(stderrBuffer, -CrashTail)]_vars

\* spawns after which the crash loop can still spawn
LoopSpawns == 1..(MaxLiveSpawns - 1)

TimerOnlyWhileRestarting ==
    status # "restarting" => (timers = {} /\ restartTimer = Null)

\* a start(mode) resumes after the mode has been persisted
StartResumes == \E i \in DOMAIN configWrites, ok \in BOOLEAN : SaveConfigDone(i, ok)

\* C36: the check of start() and its transition to running are atomic: a
\* start(mode) that resumes when another call has set running in the
\* meantime, and the child of that call is alive, spawns nothing, so of the
\* calls that overlap exactly one spawns.
OverlappingStartsSpawnOnce ==
    [][(StartResumes /\ status = "running" /\ childProcess \in live) =>
          (nextPid' = nextPid /\ childProcess' = childProcess)]_vars

\* C37: the exit of a child that has been replaced, while the child that
\* replaced it is running, leaves the current run alone: pid, the probe and
\* the sampler, status, the crash history and the restart timers are unchanged.
StaleExitLeavesRunAlone ==
    [][\A p \in live, res \in ExitResults :
          (/\ ChildExit(p, res)
           /\ p # childProcess
           /\ childProcess \in live
           /\ status = "running") =>
          UNCHANGED <<pid, healthCheckTimer, resourceTimer, status, crashLog,
                      timers, restartTimer>>]_vars

\* C38: the tailer has at most one poll interval armed at any moment, also
\* when startWatching() is called again before initializeFileSizes() of the
\* call before has recorded the sizes.
AtMostOnePollTimer == Cardinality(pollTimers) <= 1

\* C39: clearCrashLog() empties the crash history and the rolling list of
\* crash timestamps, so that getStatus() reports 0 crashes, and leaves status,
\* pid, backoffMs, the child and every armed restart timer as they were.
ClearCrashLogFrame ==
    [][ClearCrashLog =>
          /\ crashLog' = <<>>
          /\ recentCrashTimestamps' = <<>>
          /\ getStatus(Self)'.totalCrashes = 0
          /\ getStatus(Self)'.recentCrashes = 0
          /\ UNCHANGED <<status, pid, backoffMs, timers, restartTimer,
                         childProcess, live, config, startTime,
                         healthCheckTimer, resourceTimer>>]_vars

\* the history was cleared in max_restarts and the supervisor is still there
ClearedInMaxRestarts ==
    /\ status = "max_restarts"
    /\ crashLog = <<>>
    /\ recentCrashTimestamps = <<>>
    /\ backoffMs > 1000

\* C40: a stop() commanded while the build of buildAndRun() has not finished,
\* with no start or restart commanded since, is final: when the build exits
\* with code 0 no start() is begun, no child is spawned and status stays
\* stopped.
StopDuringBuildIsFinal ==
    [][(BuildExit(0) /\ lastStop.st # "none") =>
          /\ pendingStarts' = pendingStarts
          /\ nextPid' = nextPid
          /\ status' = "stopped"]_vars

====
